---- MODULE Spec2Model ----
(***************************************************************************)
(* fr::metadata::Metadata (include/fr/metadata/metadata.h): a std::map of  *)
(* unique ids, each holding a shared pointer to a std::map of string       *)
(* key/value pairs, guarded by one std::mutex.                             *)
(*                                                                         *)
(* One action of the model is one critical section of the class: the code  *)
(* between the construction of a std::lock_guard and the end of its scope. *)
(* A member function that takes the mutex several times (the three-        *)
(* argument add, value, update) is several actions, and any other thread   *)
(* may run between them.  The first critical section of a call is also its *)
(* invocation: the caller's arguments are chosen there.                    *)
(*                                                                         *)
(* Strings are modelled by small domains: ids by the strings of IdOrder,   *)
(* keys by the strings of KeyOrder and values by 0..NumVals-1 (0 stands    *)
(* for the empty string).  std::map iterates in key order, which is the    *)
(* order of IdOrder and of KeyOrder.                                       *)
(*                                                                         *)
(* toJson and fromJson are modelled by what cereal does with the map: a    *)
(* text is a sequence of items, one per id, each with the pointer wrapper  *)
(* of the entry and the items of the entry.  toJson takes no lock and is   *)
(* one action per item.                                                    *)
(*                                                                         *)
(* fr::metadata::Server (include/fr/metadata/server.h): start(),           *)
(* shutdown(), the destructor and the thread start() creates, one action   *)
(* per statement on running, shutdownFlag, serverThread and the endpoint.  *)
(*                                                                         *)
(* Specifications:                                                         *)
(*   Spec        NumThreads threads calling the members of one Metadata    *)
(*   SeqSpec     one thread doing the same, with the history of its calls  *)
(*   ConcSpec    two threads whose calls name one id and one key           *)
(*   CodecSpec   one thread calling toJson(m) for any m, and fromJson      *)
(*   EncSpec     toJson(m) while another thread calls add and erase        *)
(*   ServerSpec  one thread calling start, shutdown and the destructor     *)
(***************************************************************************)
EXTENDS Integers, Sequences, FiniteSets, TLC

VARIABLES
  metadata,   \* Metadata::metadata: id -> (key -> value), a partial function
  thr,        \* per calling thread: the call it is in, or its last outcome
  gh,         \* history of the calls made so far (no variable of the code)
  codec,      \* the caller of toJson and fromJson: its position and its text
  srv         \* fr::metadata::Server: its flags and its serving thread

vars == <<metadata, thr, gh, codec, srv>>

\* ------------------------------------------------------------- bounds
NumThreads == 2
NumVals == 2
\* the largest nthreads a caller hands to Server::start
MaxServeThreads == 2

Threads == 1..NumThreads
\* the single caller of SeqSpec
SeqThreads == {1}
IdOrder == <<"Baz", "Foo">>
KeyOrder == <<"Bar", "Quux">>
Ids == {IdOrder[i] : i \in 1..Len(IdOrder)}
Keys == {KeyOrder[i] : i \in 1..Len(KeyOrder)}
Vals == 0..(NumVals - 1)

\* ------------------------------------------------- std::map operations
\* std::make_shared<DataType>(): a map without keys
EmptyEntry == [k \in {} |-> 0]

\* a default-constructed MetadataMap
EmptyMap == [i \in {} |-> EmptyEntry]

\* std::map::insert: does nothing when the key is there already
MapInsert(m, k, v) ==
  IF k \in DOMAIN m THEN m
  ELSE [x \in (DOMAIN m) \cup {k} |-> IF x = k THEN v ELSE m[x]]

\* std::map::operator[] followed by an assignment
MapAssign(m, k, v) ==
  [x \in (DOMAIN m) \cup {k} |-> IF x = k THEN v ELSE m[x]]

\* std::map::erase(key)
MapErase(m, k) == [x \in (DOMAIN m) \ {k} |-> m[x]]

\* the elements of a sequence
Range(q) == {q[i] : i \in 1..Len(q)}

\* the keys of a std::map in iteration order, given the order of the key type
RECURSIVE InOrder(_, _, _)
InOrder(order, i, present) ==
  IF i > Len(order) THEN <<>>
  ELSE (IF order[i] \in present THEN <<order[i]>> ELSE <<>>)
       \o InOrder(order, i + 1, present)

\* --------------------------------------------------- Metadata, unlocked
\* Metadata::contains(id, false)
contains(m, id) == id \in DOMAIN m

\* the body of Metadata::idContains
idContains(m, id, key) == contains(m, id) /\ key \in DOMAIN m[id]

\* a loop that stops after the first id
ids_FirstOnly(m) ==
  LET q == InOrder(IdOrder, 1, DOMAIN m)
  IN IF q = <<>> THEN q ELSE <<q[1]>>

\* the loop of Metadata::ids
ids(m) == InOrder(IdOrder, 1, DOMAIN m)

\* the loop of Metadata::keys
keys(m, id) == InOrder(KeyOrder, 1, DOMAIN m[id])

\* the store once the map that metadata.at(id) points to has become e
PutEntry(m, id, e) == [m EXCEPT ![id] = e]

\* a std::shared_ptr<DataType> that holds no map: it differs from every map
Null == [k \in {"nullptr"} |-> 0]

\* ------------------------------------------------------------ documents
\* A document is what cereal's JSON archive holds for the map: the items in
\* order, each an id, the pointer wrapper of its entry and the items of the
\* entry in order.  The pointer wrapper is "new" (a pointer id with the high
\* bit set, followed by the data of the map), "null" (pointer id 0 and no
\* data) or "bad" (a value the archive cannot read as a pointer wrapper).
\* Documents in which two items share one pointer id are left out.
Docs ==
  << <<>>,
     << <<"Foo", "new", << <<"Bar", 0>> >> >> >>,
     << <<"Baz", "new", <<>> >>,
        <<"Foo", "new", << <<"Bar", 1>>, <<"Quux", 0>> >> >> >>,
     << <<"Foo", "new", << <<"Quux", 1>>, <<"Quux", 0>> >> >>,
        <<"Foo", "new", <<>> >> >> >>

\* a text that parses as JSON and holds the document items
Json(items) == [parses |-> TRUE, items |-> items]

\* The texts a caller hands to fromJson besides those toJson has returned:
\* the documents above, a text that is not JSON, a document whose first item
\* is not a map item, a document whose second item has no pointer wrapper,
\* and documents with a null pointer.
Texts ==
  [d \in 1..Len(Docs) |-> Json(Docs[d])] \o
  << [parses |-> FALSE, items |-> <<>>],
     Json(<< <<"Foo", "bad", <<>> >> >>),
     Json(<< <<"Baz", "new", << <<"Bar", 1>> >> >>, <<"Foo", "bad", <<>> >> >>),
     Json(<< <<"Foo", "null", <<>> >> >>),
     Json(<< <<"Baz", "null", <<>> >>, <<"Foo", "new", << <<"Quux", 1>> >> >> >>) >>

\* cereal's load of a map: clear, then emplace_hint item by item (an item
\* whose key is there already is dropped)
RECURSIVE LoadEntry(_, _, _)
LoadEntry(items, i, e) ==
  IF i > Len(items) THEN e
  ELSE LoadEntry(items, i + 1, MapInsert(e, items[i][1], items[i][2]))

\* cereal's load of a std::shared_ptr: pointer id 0 is the null pointer, a
\* new pointer id is a new map loaded from the data
LoadPtr(item) ==
  IF item[2] = "null" THEN Null ELSE LoadEntry(item[3], 1, EmptyEntry)

\* the load stops at the first item the archive cannot read, with the items
\* before it in the map
RECURSIVE LoadMap(_, _, _)
LoadMap(items, i, m) ==
  IF i > Len(items) \/ items[i][2] = "bad" THEN m
  ELSE LoadMap(items, i + 1, MapInsert(m, items[i][1], LoadPtr(items[i])))

\* archive(m) throws: some item cannot be read
LoadThrows(items) == \E i \in 1..Len(items) : items[i][2] = "bad"

\* a save that leaves out the keys stored with the empty string
SaveEntry_SkipEmpty(e) ==
  LET ks == InOrder(KeyOrder, 1, {k \in DOMAIN e : e[k] # 0})
  IN [j \in 1..Len(ks) |-> <<ks[j], e[ks[j]]>>]

\* cereal's save of a std::map<std::string, std::string>: the items in order
SaveEntry(e) ==
  LET ks == InOrder(KeyOrder, 1, DOMAIN e)
  IN [j \in 1..Len(ks) |-> <<ks[j], e[ks[j]]>>]

\* cereal's save of one item of the MetadataMap: the id and the pointer
SaveItem(m, id) ==
  IF m[id] = Null THEN <<id, "null", <<>> >>
  ELSE <<id, "new", SaveEntry(m[id])>>

\* what archive(metadata) writes for a map nobody else touches
SaveMap(m) ==
  LET is == InOrder(IdOrder, 1, DOMAIN m)
  IN [j \in 1..Len(is) |-> SaveItem(m, is[j])]

\* --------------------------------------------------------------- errors
\* What a call throws is named after the message of its throw statement:
\*   "AlreadyInMetadata"     '{}' already exists in metadata          (107)
\*   "KeyAlreadyInId"        '{}' already exists in the unique id '{}' (118)
\*   "UniqueIdDoesNotExist"  Unique ID '{}' does not exist        (146, 169)
\*   "KeyOrIdDoNotExist"     Key '{}' or unique ID '{}' do not exist   (183)
\*   "DeletedBeforeAccess"   ID '{}' or key '{}' was deleted before ... (192)
\*   "map::at"               what std::map::at throws                  (220)
\*   "ParseError"            what cereal::JSONInputArchive(stream) throws
\*                           for a text that is not JSON               (245)
\*   "LoadError"             what archive(m) throws for a document it
\*                           cannot read as the map                    (247)
\* and "none" when the call returns.

\* the C++ type of the exception
ErrType(e) ==
  CASE e = "none" -> "none"
    [] e = "DeletedBeforeAccess" -> "std::string"
    [] e = "map::at" -> "std::out_of_range"
    [] OTHER -> "std::runtime_error"

\* what the exception tells the caller
ErrKind(e) ==
  CASE e = "none" -> "none"
    [] e \in {"AlreadyInMetadata", "KeyAlreadyInId"}
         /\ ErrType(e) = "std::runtime_error" -> "AlreadyExists"
    [] e \in {"UniqueIdDoesNotExist", "KeyOrIdDoNotExist"}
         /\ ErrType(e) = "std::runtime_error" -> "NotFound"
    [] e \in {"ParseError", "LoadError"} -> "FormatError"
    [] OTHER -> "other"

\* ------------------------------------------------------------- threads
NoCall == [pc |-> "done", op |-> "none", id |-> "", key |-> "", val |-> 0,
           err |-> "none", rb |-> FALSE, rv |-> 0, rl |-> <<>>]

\* a thread that may start a call
Ready(t) == thr[t].pc = "done"

\* a thread whose last call was of member function op, and is over
Finished(t, op) == thr[t].pc = "done" /\ thr[t].op = op

\* the call of a member function, at its first critical section
Call(op, id, key, val) ==
  [NoCall EXCEPT !.op = op, !.id = id, !.key = key, !.val = val]

\* the thread's record once the call has returned or thrown: the arguments
\* are gone with the stack frame
Return(c, err) ==
  [c EXCEPT !.pc = "done", !.err = err, !.rb = FALSE,
            !.id = "", !.key = "", !.val = 0]

\* the caller of the codec before its first call: no text yet; m is the
\* Metadata it hands to toJson, mtx tells whether it holds the mutex of the
\* Metadata it hands to fromJson
NoCodec == [pc |-> "idle", op |-> "none", m |-> EmptyMap, cur |-> 1,
            out |-> <<>>, json |-> <<>>, data |-> <<>>, err |-> "none",
            mtx |-> FALSE]

\* A Server after its constructor: setupRoutes has set running to false and
\* serverThread holds no thread.  (shutdownFlag is written and never read.)
\*   joinable  serverThread.joinable()
\*   tpc       where the thread of serverThread is in the lambda of start()
\*   stop      server.shutdown() has been called and serve() has not yet
\*             taken notice
\*   nthreads  the nthreads the lambda has captured
\*   life      "alive", "destroyed" (the destructor is over) or "terminated"
\*             (std::terminate has been called)
NewServer ==
  [running |-> FALSE, shutdownFlag |-> FALSE, joinable |-> FALSE,
   tpc |-> "none", stop |-> FALSE, nthreads |-> 0, life |-> "alive"]

NoHistory ==
  [pre |-> EmptyMap,
   call |-> [op |-> "none", id |-> "", key |-> "", val |-> 0],
   rep |-> FALSE, perr |-> "none", pchg |-> FALSE, seen |-> {}, raced |-> FALSE]

Init ==
  /\ metadata = EmptyMap
  /\ thr = [t \in Threads |-> NoCall]
  /\ gh = NoHistory
  /\ codec = NoCodec
  /\ srv = NewServer

\* ----------------------------------------------------------- operations
\* bool contains(id)
Contains(t, id) ==
  /\ Ready(t)
  /\ thr' = [thr EXCEPT ![t] =
               [Return(Call("contains", id, "", 0), "none")
                  EXCEPT !.rb = contains(metadata, id)]]
  /\ UNCHANGED metadata

\* bool idContains(id, key)
IdContains(t, id, key) ==
  /\ Ready(t)
  /\ thr' = [thr EXCEPT ![t] =
               [Return(Call("idContains", id, key, 0), "none")
                  EXCEPT !.rb = idContains(metadata, id, key)]]
  /\ UNCHANGED metadata

\* Add without its check: the entry of an id that is there is replaced
Add_Overwrite(t, id) ==
  /\ Ready(t)
  /\ thr' = [thr EXCEPT ![t] = Return(Call("add", id, "", 0), "none")]
  /\ metadata' = MapAssign(metadata, id, EmptyEntry)

\* void add(id)
Add(t, id) ==
  /\ Ready(t)
  /\ IF contains(metadata, id)
     THEN /\ thr' = [thr EXCEPT ![t] =
                       Return(Call("add", id, "", 0), "AlreadyInMetadata")]
          /\ UNCHANGED metadata
     ELSE /\ thr' = [thr EXCEPT ![t] = Return(Call("add", id, "", 0), "none")]
          /\ metadata' = MapInsert(metadata, id, EmptyEntry)

\* AddKV_check without the throw of lines 117-119
AddKV_check_NoThrow(t, id, key, val) ==
  /\ Ready(t)
  /\ thr' = [thr EXCEPT ![t] =
               [Call("addKV", id, key, val) EXCEPT !.pc = "addKV.contains"]]
  /\ UNCHANGED metadata

\* void add(id, key, value), line 117: if (idContains(id, key)) throw
AddKV_check(t, id, key, val) ==
  /\ Ready(t)
  /\ thr' = [thr EXCEPT ![t] =
               IF idContains(metadata, id, key)
               THEN Return(Call("addKV", id, key, val), "KeyAlreadyInId")
               ELSE [Call("addKV", id, key, val) EXCEPT !.pc = "addKV.contains"]]
  /\ UNCHANGED metadata

\* line 132: if (!contains(id)); rb holds what contains(id) returned
AddKV_contains(t) ==
  /\ thr[t].pc = "addKV.contains"
  /\ thr' = [thr EXCEPT ![t] =
               IF contains(metadata, thr[t].id)
               THEN [thr[t] EXCEPT !.pc = "addKV.insert", !.rb = TRUE]
               ELSE [thr[t] EXCEPT !.pc = "addKV.add", !.rb = FALSE]]
  /\ UNCHANGED metadata

\* line 133: add(id), whose exception leaves add(id, key, value)
AddKV_add(t) ==
  /\ thr[t].pc = "addKV.add"
  /\ IF contains(metadata, thr[t].id)
     THEN /\ thr' = [thr EXCEPT ![t] = Return(thr[t], "AlreadyInMetadata")]
          /\ UNCHANGED metadata
     ELSE /\ thr' = [thr EXCEPT ![t] = [thr[t] EXCEPT !.pc = "addKV.insert"]]
          /\ metadata' = MapInsert(metadata, thr[t].id, EmptyEntry)

\* AddKV_insert with operator[] and no assignment: the key gets the empty
\* string
AddKV_insert_NoValue(t) ==
  /\ thr[t].pc = "addKV.insert"
  /\ LET id == thr[t].id
         key == thr[t].key
     IN IF ~contains(metadata, id) \/ key \in DOMAIN metadata[id]
        THEN /\ thr' = [thr EXCEPT ![t] = Return(thr[t], "UniqueIdDoesNotExist")]
             /\ UNCHANGED metadata
        ELSE /\ thr' = [thr EXCEPT ![t] = Return(thr[t], "none")]
             /\ metadata' = PutEntry(metadata, id, MapInsert(metadata[id], key, 0))

\* AddKV_insert with an assignment in the place of the insert: the last
\* write wins and nobody is told
AddKV_insert_Assign(t) ==
  /\ thr[t].pc = "addKV.insert"
  /\ LET id == thr[t].id
     IN IF ~contains(metadata, id)
        THEN /\ thr' = [thr EXCEPT ![t] = Return(thr[t], "UniqueIdDoesNotExist")]
             /\ UNCHANGED metadata
        ELSE /\ thr' = [thr EXCEPT ![t] = Return(thr[t], "none")]
             /\ metadata' = PutEntry(metadata, id,
                                     MapAssign(metadata[id], thr[t].key, thr[t].val))

\* lines 136-148: metadata.at(id)->insert({key, value}) inside try; the
\* catch of std::exception catches what at() throws and also the
\* runtime_error of line 142, and throws the message of line 146 for both
AddKV_insert(t) ==
  /\ thr[t].pc = "addKV.insert"
  /\ LET id == thr[t].id
         key == thr[t].key
     IN IF ~contains(metadata, id)
        THEN /\ thr' = [thr EXCEPT ![t] = Return(thr[t], "UniqueIdDoesNotExist")]
             /\ UNCHANGED metadata
        ELSE IF key \in DOMAIN metadata[id]
        THEN /\ thr' = [thr EXCEPT ![t] = Return(thr[t], "UniqueIdDoesNotExist")]
             /\ UNCHANGED metadata
        ELSE /\ thr' = [thr EXCEPT ![t] = Return(thr[t], "none")]
             /\ metadata' = PutEntry(metadata, id,
                                     MapInsert(metadata[id], key, thr[t].val))

\* std::vector<std::string> ids()
IdsOp(t) ==
  /\ Ready(t)
  /\ thr' = [thr EXCEPT ![t] =
               [Return(Call("ids", "", "", 0), "none") EXCEPT !.rl = ids(metadata)]]
  /\ UNCHANGED metadata

\* KeysOp without the check of lines 168-171: no keys for an id that is
\* not there
KeysOp_NoCheck(t, id) ==
  /\ Ready(t)
  /\ thr' = [thr EXCEPT ![t] =
               [Return(Call("keys", id, "", 0), "none")
                  EXCEPT !.rl = IF contains(metadata, id)
                                THEN keys(metadata, id) ELSE <<>>]]
  /\ UNCHANGED metadata

\* std::vector<std::string> keys(id)
KeysOp(t, id) ==
  /\ Ready(t)
  /\ thr' = [thr EXCEPT ![t] =
               IF ~contains(metadata, id)
               THEN Return(Call("keys", id, "", 0), "UniqueIdDoesNotExist")
               ELSE [Return(Call("keys", id, "", 0), "none")
                       EXCEPT !.rl = keys(metadata, id)]]
  /\ UNCHANGED metadata

\* std::string value(id, key), line 182: if (!idContains(id, key)) throw
Value_check(t, id, key) ==
  /\ Ready(t)
  /\ thr' = [thr EXCEPT ![t] =
               IF ~idContains(metadata, id, key)
               THEN Return(Call("value", id, key, 0), "KeyOrIdDoNotExist")
               ELSE [Call("value", id, key, 0) EXCEPT !.pc = "value.at"]]
  /\ UNCHANGED metadata

\* lines 186-195: metadata.at(id)->at(key) inside try; the catch throws a
\* std::string
\* value(id, key) taking a stored empty string for a missing key
Value_at_EmptyIsMissing(t) ==
  /\ thr[t].pc = "value.at"
  /\ thr' = [thr EXCEPT ![t] =
               IF /\ idContains(metadata, thr[t].id, thr[t].key)
                  /\ metadata[thr[t].id][thr[t].key] # 0
               THEN [Return(thr[t], "none")
                       EXCEPT !.rv = metadata[thr[t].id][thr[t].key]]
               ELSE Return(thr[t], "DeletedBeforeAccess")]
  /\ UNCHANGED metadata

Value_at(t) ==
  /\ thr[t].pc = "value.at"
  /\ thr' = [thr EXCEPT ![t] =
               IF idContains(metadata, thr[t].id, thr[t].key)
               THEN [Return(thr[t], "none")
                       EXCEPT !.rv = metadata[thr[t].id][thr[t].key]]
               ELSE Return(thr[t], "DeletedBeforeAccess")]
  /\ UNCHANGED metadata

\* Erase that throws when the id is not there
Erase_Strict(t, id) ==
  /\ Ready(t)
  /\ thr' = [thr EXCEPT ![t] =
               Return(Call("erase", id, "", 0),
                      IF contains(metadata, id) THEN "none" ELSE "UniqueIdDoesNotExist")]
  /\ metadata' = MapErase(metadata, id)

\* void erase(id)
Erase(t, id) ==
  /\ Ready(t)
  /\ thr' = [thr EXCEPT ![t] = Return(Call("erase", id, "", 0), "none")]
  /\ metadata' = MapErase(metadata, id)

\* void erase(id, key)
\* erase(id, key) dropping id with its last key
EraseKey_DropEmpty(t, id, key) ==
  /\ Ready(t)
  /\ thr' = [thr EXCEPT ![t] = Return(Call("eraseKey", id, key, 0), "none")]
  /\ metadata' = IF ~contains(metadata, id) THEN metadata
                 ELSE IF DOMAIN metadata[id] \subseteq {key}
                      THEN MapErase(metadata, id)
                      ELSE PutEntry(metadata, id, MapErase(metadata[id], key))

EraseKey(t, id, key) ==
  /\ Ready(t)
  /\ thr' = [thr EXCEPT ![t] = Return(Call("eraseKey", id, key, 0), "none")]
  /\ metadata' = IF contains(metadata, id)
                 THEN PutEntry(metadata, id, MapErase(metadata[id], key))
                 ELSE metadata

\* void update(id, key, value), line 216: if (!contains(id)); rb holds what
\* contains(id) returned
Update_contains(t, id, key, val) ==
  /\ Ready(t)
  /\ thr' = [thr EXCEPT ![t] =
               IF contains(metadata, id)
               THEN [Call("update", id, key, val)
                       EXCEPT !.pc = "update.assign", !.rb = TRUE]
               ELSE [Call("update", id, key, val)
                       EXCEPT !.pc = "update.add", !.rb = FALSE]]
  /\ UNCHANGED metadata

\* line 217: add(id), whose exception leaves update
Update_add(t) ==
  /\ thr[t].pc = "update.add"
  /\ IF contains(metadata, thr[t].id)
     THEN /\ thr' = [thr EXCEPT ![t] = Return(thr[t], "AlreadyInMetadata")]
          /\ UNCHANGED metadata
     ELSE /\ thr' = [thr EXCEPT ![t] = [thr[t] EXCEPT !.pc = "update.assign"]]
          /\ metadata' = MapInsert(metadata, thr[t].id, EmptyEntry)

\* Update_assign with insert in place of operator[]: a key that is there
\* keeps its value
\* update(id, key, value) putting a new map of one key in the place of the
\* map of id
Update_assign_Replace(t) ==
  /\ thr[t].pc = "update.assign"
  /\ LET id == thr[t].id
     IN IF ~contains(metadata, id)
        THEN /\ thr' = [thr EXCEPT ![t] = Return(thr[t], "map::at")]
             /\ UNCHANGED metadata
        ELSE /\ thr' = [thr EXCEPT ![t] = Return(thr[t], "none")]
             /\ metadata' = PutEntry(metadata, id,
                                     MapAssign(EmptyEntry, thr[t].key, thr[t].val))

Update_assign_Insert(t) ==
  /\ thr[t].pc = "update.assign"
  /\ LET id == thr[t].id
     IN IF ~contains(metadata, id)
        THEN /\ thr' = [thr EXCEPT ![t] = Return(thr[t], "map::at")]
             /\ UNCHANGED metadata
        ELSE /\ thr' = [thr EXCEPT ![t] = Return(thr[t], "none")]
             /\ metadata' = PutEntry(metadata, id,
                                     MapInsert(metadata[id], thr[t].key, thr[t].val))

\* lines 219-220: (*metadata.at(id))[key] = value; at() throws
\* std::out_of_range when id is gone, and nothing catches it
Update_assign(t) ==
  /\ thr[t].pc = "update.assign"
  /\ LET id == thr[t].id
     IN IF ~contains(metadata, id)
        THEN /\ thr' = [thr EXCEPT ![t] = Return(thr[t], "map::at")]
             /\ UNCHANGED metadata
        ELSE /\ thr' = [thr EXCEPT ![t] = Return(thr[t], "none")]
             /\ metadata' = PutEntry(metadata, id,
                                     MapAssign(metadata[id], thr[t].key, thr[t].val))

\* static void fromJson(m, data) with the d-th document: archive(m) under
\* the lock
FromJson(t, d) ==
  /\ Ready(t)
  /\ thr' = [thr EXCEPT ![t] = Return(Call("fromJson", "", "", d), "none")]
  /\ metadata' = LoadMap(Docs[d], 1, EmptyMap)

\* ------------------------------------------------------------ the codec
\* The caller of the codec keeps in codec.json the text toJson returned last
\* (a sequence of no or one text) and in codec.data the text of its last
\* fromJson.

\* the position in IdOrder of the first id of m at or after position i, 0
\* when there is none: where the map iterator of the archive goes next
NextItem(m, i) ==
  LET c == {j \in i..Len(IdOrder) : IdOrder[j] \in DOMAIN m}
  IN IF c = {} THEN 0 ELSE CHOOSE j \in c : \A k \in c : j <= k

\* static std::string toJson(Metadata& m), lines 231-234: the stream and the
\* archive are set up; no lock is taken
ToJson_begin ==
  /\ codec.pc = "idle"
  /\ codec' = [codec EXCEPT !.pc = "toJson", !.op = "toJson", !.cur = 1,
                             !.out = <<>>, !.err = "none"]
  /\ UNCHANGED metadata

\* line 234 with 224-227: archive(metadata) writes the next item of the map
\* of m as it is now (the entry of an item is read in one step)
ToJson_item(m) ==
  /\ codec.pc = "toJson"
  /\ NextItem(m, codec.cur) # 0
  /\ LET j == NextItem(m, codec.cur)
     IN codec' = [codec EXCEPT !.cur = j + 1,
                               !.out = Append(@, SaveItem(m, IdOrder[j]))]
  /\ UNCHANGED metadata

\* lines 235-236: the iterator is at the end, the text is returned
ToJson_end(m) ==
  /\ codec.pc = "toJson"
  /\ NextItem(m, codec.cur) = 0
  /\ codec' = [codec EXCEPT !.pc = "idle", !.cur = 1, !.out = <<>>,
                             !.json = <<Json(codec.out)>>]
  /\ UNCHANGED metadata

\* line 234 while another thread has changed the map since toJson began:
\* archive(metadata) iterates a std::map that is written without the mutex
\* being held by the reader, which is undefined behaviour.  The walk either
\* goes on with the map as it is now (ToJson_item, ToJson_end) or does
\* anything else: the model stops at "undefined".
ToJson_undefined ==
  /\ codec.pc = "toJson"
  /\ gh.raced
  /\ codec' = [codec EXCEPT !.pc = "undefined"]
  /\ UNCHANGED metadata

\* static void fromJson(Metadata& m, const std::string& data), lines
\* 242-245: cereal::JSONInputArchive archive(stream) parses the text, before
\* the lock is taken, and throws when the text is not JSON
FromJson_parse(text) ==
  /\ codec.pc = "idle"
  /\ codec' = IF text.parses
              THEN [codec EXCEPT !.pc = "fromJson.lock", !.op = "fromJson",
                                 !.data = <<text>>, !.err = "none"]
              ELSE [codec EXCEPT !.op = "fromJson", !.data = <<text>>,
                                 !.err = "ParseError"]
  /\ UNCHANGED metadata

\* line 246: std::lock_guard<std::mutex> lock(m.mtx)
FromJson_lock ==
  /\ codec.pc = "fromJson.lock"
  /\ ~codec.mtx
  /\ codec' = [codec EXCEPT !.pc = "fromJson.load", !.mtx = TRUE]
  /\ UNCHANGED metadata

\* fromJson leaving the mutex locked when archive(m) throws
FromJson_load_NoUnlock ==
  /\ codec.pc = "fromJson.load"
  /\ metadata' = LoadMap(codec.data[1].items, 1, EmptyMap)
  /\ codec' = IF LoadThrows(codec.data[1].items)
              THEN [codec EXCEPT !.pc = "idle", !.err = "LoadError"]
              ELSE [codec EXCEPT !.pc = "idle", !.mtx = FALSE]

\* fromJson loading into the map without clearing it
FromJson_load_Merge ==
  /\ codec.pc = "fromJson.load"
  /\ metadata' = LoadMap(codec.data[1].items, 1, metadata)
  /\ codec' = [codec EXCEPT !.pc = "idle", !.mtx = FALSE,
                             !.err = IF LoadThrows(codec.data[1].items)
                                     THEN "LoadError" ELSE "none"]

\* lines 247-248: archive(m) clears the map and loads the items; the scope
\* ends and the lock_guard unlocks, also when archive(m) throws
FromJson_load ==
  /\ codec.pc = "fromJson.load"
  /\ metadata' = LoadMap(codec.data[1].items, 1, EmptyMap)
  /\ codec' = [codec EXCEPT !.pc = "idle", !.mtx = FALSE,
                             !.err = IF LoadThrows(codec.data[1].items)
                                     THEN "LoadError" ELSE "none"]

\* ----------------------------------------------------------- the Server
\* The callers of start(), shutdown() and the destructor keep their position
\* in thr, like the callers of Metadata; the thread start() creates keeps
\* its position in srv.tpc.  One action is one statement on the atomics, on
\* serverThread or on the Pistache endpoint.

\* void start(int nthreads), line 189: if (!running), else the throw of 199
Start_check(t, n) ==
  /\ Ready(t)
  /\ srv.life = "alive"
  /\ thr' = [thr EXCEPT ![t] =
               IF srv.running
               THEN Return(Call("start", "", "", n), "ServerAlreadyRunning")
               ELSE [Call("start", "", "", n) EXCEPT !.pc = "start.spawn"]]
  /\ UNCHANGED srv

\* line 190: serverThread = std::thread(...); the move assignment calls
\* std::terminate when serverThread still holds a thread
Start_spawn(t) ==
  /\ thr[t].pc = "start.spawn"
  /\ srv.life = "alive"
  /\ thr' = [thr EXCEPT ![t] = Return(thr[t], "none")]
  /\ srv' = IF srv.joinable
            THEN [srv EXCEPT !.life = "terminated"]
            ELSE [srv EXCEPT !.joinable = TRUE, !.tpc = "spawned",
                             !.nthreads = thr[t].val]

\* line 191, in the new thread: running = true
Thread_running ==
  /\ srv.life = "alive"
  /\ srv.tpc = "spawned"
  /\ srv' = [srv EXCEPT !.running = TRUE, !.tpc = "flag"]
  /\ UNCHANGED thr

\* line 192: shutdownFlag = false
Thread_flag ==
  /\ srv.life = "alive"
  /\ srv.tpc = "flag"
  /\ srv' = [srv EXCEPT !.shutdownFlag = FALSE, !.tpc = "init"]
  /\ UNCHANGED thr

\* lines 193-195: the options, server.init and server.setHandler
Thread_init ==
  /\ srv.life = "alive"
  /\ srv.tpc = "init"
  /\ srv' = [srv EXCEPT !.tpc = "serve"]
  /\ UNCHANGED thr

\* line 196: server.serve() begins.  A server.shutdown() called before this
\* is either still noticed by serve() or lost: the code of Pistache decides.
Thread_serve ==
  /\ srv.life = "alive"
  /\ srv.tpc = "serve"
  /\ \E noticed \in BOOLEAN :
       srv' = [srv EXCEPT !.tpc = "serving", !.stop = @ /\ noticed]
  /\ UNCHANGED thr

\* line 196: server.serve() returns after server.shutdown(), and the lambda
\* ends
Thread_exit ==
  /\ srv.life = "alive"
  /\ srv.tpc = "serving"
  /\ srv.stop
  /\ srv' = [srv EXCEPT !.tpc = "exited", !.stop = FALSE]
  /\ UNCHANGED thr

\* void shutdown(), line 204: if (running); the destructor, lines 179-180,
\* goes the same way (op is "shutdown" or "~Server")
Shutdown_check(t, op) ==
  /\ Ready(t)
  /\ srv.life = "alive"
  /\ IF srv.running
     THEN /\ thr' = [thr EXCEPT ![t] =
                      [Call(op, "", "", 0) EXCEPT !.pc = "shutdown.flag"]]
          /\ UNCHANGED srv
     ELSE /\ thr' = [thr EXCEPT ![t] = Return(Call(op, "", "", 0), "none")]
          /\ srv' = IF op = "shutdown" THEN srv
                    ELSE IF srv.joinable
                         THEN [srv EXCEPT !.life = "terminated"]
                         ELSE [srv EXCEPT !.life = "destroyed"]

\* line 205: shutdownFlag = true
Shutdown_flag(t) ==
  /\ thr[t].pc = "shutdown.flag"
  /\ srv.life = "alive"
  /\ thr' = [thr EXCEPT ![t].pc = "shutdown.stop"]
  /\ srv' = [srv EXCEPT !.shutdownFlag = TRUE]

\* line 206: server.shutdown()
Shutdown_stop(t) ==
  /\ thr[t].pc = "shutdown.stop"
  /\ srv.life = "alive"
  /\ thr' = [thr EXCEPT ![t].pc = "shutdown.join"]
  /\ srv' = [srv EXCEPT !.stop = TRUE]

\* line 207: serverThread.join() returns when the thread has ended, and
\* throws std::system_error when serverThread holds no thread
Shutdown_join(t) ==
  /\ thr[t].pc = "shutdown.join"
  /\ srv.life = "alive"
  /\ IF ~srv.joinable
     THEN /\ thr' = [thr EXCEPT ![t] = Return(thr[t], "std::system_error")]
          /\ UNCHANGED srv
     ELSE /\ srv.tpc = "exited"
          /\ thr' = [thr EXCEPT ![t].pc = "shutdown.clear"]
          /\ srv' = [srv EXCEPT !.joinable = FALSE, !.tpc = "none"]

\* line 208: running = false, and the call returns; the destructor then
\* destroys serverThread
Shutdown_clear(t) ==
  /\ thr[t].pc = "shutdown.clear"
  /\ srv.life = "alive"
  /\ thr' = [thr EXCEPT ![t] = Return(thr[t], "none")]
  /\ srv' = [srv EXCEPT !.running = FALSE,
                         !.life = IF thr[t].op = "shutdown" THEN "alive"
                                  ELSE IF srv.joinable THEN "terminated"
                                  ELSE "destroyed"]

\* ---------------------------------------------------- the REST handlers
\* A thread of the endpoint running a handler keeps, next to its position,
\*   id    the :id of the request
\*   rl    the keys data->keys(id) returned, cur the key the loop is at
\*   resp  what the ResponseWriter has sent: a sequence of responses
\*         [code, body, lines, ended]; a response begun by response.stream
\*         has ended once Pistache::Http::ends is written
\*   err   the exception that left the handler, "none" if it returned
NoRequest == [pc |-> "done", op |-> "none", id |-> "", err |-> "none",
              rl |-> <<>>, cur |-> 1, resp |-> <<>>]

Request(op, id) == [NoRequest EXCEPT !.op = op, !.id = id]

\* response.send(code, body)
Send(c, code, body) ==
  [c EXCEPT !.pc = "done",
            !.resp = Append(@, [code |-> code, body |-> body,
                                lines |-> <<>>, ended |-> TRUE])]

\* an exception thrown by a call on data that no catch of the handler holds
Escape(c, err) == [c EXCEPT !.pc = "done", !.err = err]

\* stream.write(message) on the response begun last
Write(c, line) ==
  [c EXCEPT !.resp[Len(c.resp)].lines = Append(@, line)]

\* stream << Pistache::Http::ends
Ends(c) == [c EXCEPT !.pc = "done", !.resp[Len(c.resp)].ended = TRUE]

\* addId, lines 86-88: if (data->contains(id)) error(response, "ID already
\* exists")
AddId_contains(t, id) ==
  /\ Ready(t)
  /\ thr' = [thr EXCEPT ![t] =
               IF contains(metadata, id)
               THEN Send(Request("addId", id), "Bad_Request", "ID already exists")
               ELSE [Request("addId", id) EXCEPT !.pc = "addId.add"]]
  /\ UNCHANGED metadata

\* AddId_add without the try and catch of lines 89-94
AddId_add_NoCatch(t) ==
  /\ thr[t].pc = "addId.add"
  /\ IF contains(metadata, thr[t].id)
     THEN /\ thr' = [thr EXCEPT ![t] = Escape(thr[t], "AlreadyInMetadata")]
          /\ UNCHANGED metadata
     ELSE /\ thr' = [thr EXCEPT ![t] = Send(thr[t], "Ok", "ID Added")]
          /\ metadata' = MapInsert(metadata, thr[t].id, EmptyEntry)

\* addId, lines 89-94: data->add(id) and response.send(Ok, "ID Added\n")
\* inside try; the catch sends what add(id) threw as a Bad_Request
AddId_add(t) ==
  /\ thr[t].pc = "addId.add"
  /\ IF contains(metadata, thr[t].id)
     THEN /\ thr' = [thr EXCEPT ![t] =
                       Send(thr[t], "Bad_Request", "AlreadyInMetadata")]
          /\ UNCHANGED metadata
     ELSE /\ thr' = [thr EXCEPT ![t] = Send(thr[t], "Ok", "ID Added")]
          /\ metadata' = MapInsert(metadata, thr[t].id, EmptyEntry)

\* getId, lines 101-105: if (!data->contains(id)) error(response, "'{}' not
\* found", Not_Found), else response.stream(Ok)
GetId_contains(t, id) ==
  /\ Ready(t)
  /\ thr' = [thr EXCEPT ![t] =
               IF ~contains(metadata, id)
               THEN Send(Request("getId", id), "Not_Found", "not found")
               ELSE [Request("getId", id) EXCEPT
                       !.pc = "getId.keys",
                       !.resp = <<[code |-> "Ok", body |-> "", lines |-> <<>>,
                                   ended |-> FALSE]>>]]
  /\ UNCHANGED metadata

\* getId, line 106: data->keys(id), which throws when id is not there
\* (metadata.h 168-171); with no key the loop is over and line 110 ends
\* the stream
GetId_keys(t) ==
  /\ thr[t].pc = "getId.keys"
  /\ thr' = [thr EXCEPT ![t] =
               IF ~contains(metadata, thr[t].id)
               THEN Escape(thr[t], "UniqueIdDoesNotExist")
               ELSE IF keys(metadata, thr[t].id) = <<>>
                    THEN Ends(thr[t])
                    ELSE [thr[t] EXCEPT !.pc = "getId.value",
                                        !.rl = keys(metadata, thr[t].id),
                                        !.cur = 1]]
  /\ UNCHANGED metadata

\* getId, line 107: data->value(id, key), its check (metadata.h 182-184)
GetId_value(t) ==
  /\ thr[t].pc = "getId.value"
  /\ thr' = [thr EXCEPT ![t] =
               IF ~idContains(metadata, thr[t].id, thr[t].rl[thr[t].cur])
               THEN Escape(thr[t], "KeyOrIdDoNotExist")
               ELSE [thr[t] EXCEPT !.pc = "getId.at"]]
  /\ UNCHANGED metadata

\* getId, lines 107-110: data->value(id, key), its read (metadata.h
\* 186-195), stream.write of the line and, after the last key, the end of
\* the stream
GetId_at(t) ==
  /\ thr[t].pc = "getId.at"
  /\ LET c == thr[t]
         key == c.rl[c.cur]
     IN thr' = [thr EXCEPT ![t] =
                  IF ~idContains(metadata, c.id, key)
                  THEN Escape(c, "DeletedBeforeAccess")
                  ELSE LET w == Write(c, <<key, metadata[c.id][key]>>)
                       IN IF c.cur = Len(c.rl)
                          THEN Ends(w)
                          ELSE [w EXCEPT !.pc = "getId.value",
                                         !.cur = c.cur + 1]]
  /\ UNCHANGED metadata

\* ------------------------------------------------------- specifications
\* what SeqSpec remembers when its caller makes call c: the store before the
\* call, the call, whether it repeats the call before it (the same member
\* function, id and key), how that one ended and whether it changed the store
Remember(t, c) ==
  [pre |-> metadata,
   call |-> [op |-> c.op, id |-> c.id, key |-> c.key, val |-> c.val],
   rep |-> (gh.call.op = c.op /\ gh.call.id = c.id /\ gh.call.key = c.key),
   perr |-> thr[t].err,
   pchg |-> (metadata # gh.pre),
   seen |-> gh.seen,
   raced |-> gh.raced]

\* any number of threads calling the member functions of one Metadata
Next ==
  \E t \in Threads :
    \/ \E id \in Ids : Contains(t, id) /\ UNCHANGED <<gh, codec, srv>>
    \/ \E id \in Ids, key \in Keys : IdContains(t, id, key) /\ UNCHANGED <<gh, codec, srv>>
    \/ \E id \in Ids : Add(t, id) /\ UNCHANGED <<gh, codec, srv>>
    \/ \E id \in Ids, key \in Keys, val \in Vals :
         AddKV_check(t, id, key, val) /\ UNCHANGED <<gh, codec, srv>>
    \/ AddKV_contains(t) /\ UNCHANGED <<gh, codec, srv>>
    \/ AddKV_add(t) /\ UNCHANGED <<gh, codec, srv>>
    \/ AddKV_insert(t) /\ UNCHANGED <<gh, codec, srv>>
    \/ IdsOp(t) /\ UNCHANGED <<gh, codec, srv>>
    \/ \E id \in Ids : KeysOp(t, id) /\ UNCHANGED <<gh, codec, srv>>
    \/ \E id \in Ids, key \in Keys : Value_check(t, id, key) /\ UNCHANGED <<gh, codec, srv>>
    \/ Value_at(t) /\ UNCHANGED <<gh, codec, srv>>
    \/ \E id \in Ids : Erase(t, id) /\ UNCHANGED <<gh, codec, srv>>
    \/ \E id \in Ids, key \in Keys : EraseKey(t, id, key) /\ UNCHANGED <<gh, codec, srv>>
    \/ \E id \in Ids, key \in Keys, val \in Vals :
         Update_contains(t, id, key, val) /\ UNCHANGED <<gh, codec, srv>>
    \/ Update_add(t) /\ UNCHANGED <<gh, codec, srv>>
    \/ Update_assign(t) /\ UNCHANGED <<gh, codec, srv>>
    \/ \E d \in 1..Len(Docs) : FromJson(t, d) /\ UNCHANGED <<gh, codec, srv>>

Spec == Init /\ [][Next]_vars

\* one thread calling the member functions of one Metadata, one call after
\* the other
SeqNext ==
  \E t \in SeqThreads :
    \/ \E id \in Ids :
         Contains(t, id) /\ gh' = Remember(t, Call("contains", id, "", 0))
         /\ UNCHANGED <<codec, srv>>
    \/ \E id \in Ids, key \in Keys :
         IdContains(t, id, key) /\ gh' = Remember(t, Call("idContains", id, key, 0))
         /\ UNCHANGED <<codec, srv>>
    \/ \E id \in Ids : Add(t, id) /\ gh' = Remember(t, Call("add", id, "", 0))
         /\ UNCHANGED <<codec, srv>>
    \/ \E id \in Ids, key \in Keys, val \in Vals :
         AddKV_check(t, id, key, val) /\ gh' = Remember(t, Call("addKV", id, key, val))
         /\ UNCHANGED <<codec, srv>>
    \/ AddKV_contains(t) /\ UNCHANGED <<gh, codec, srv>>
    \/ AddKV_add(t) /\ UNCHANGED <<gh, codec, srv>>
    \/ AddKV_insert(t) /\ UNCHANGED <<gh, codec, srv>>
    \/ IdsOp(t) /\ gh' = Remember(t, Call("ids", "", "", 0))
         /\ UNCHANGED <<codec, srv>>
    \/ \E id \in Ids : KeysOp(t, id) /\ gh' = Remember(t, Call("keys", id, "", 0))
         /\ UNCHANGED <<codec, srv>>
    \/ \E id \in Ids, key \in Keys :
         Value_check(t, id, key) /\ gh' = Remember(t, Call("value", id, key, 0))
         /\ UNCHANGED <<codec, srv>>
    \/ Value_at(t) /\ UNCHANGED <<gh, codec, srv>>
    \/ \E id \in Ids : Erase(t, id) /\ gh' = Remember(t, Call("erase", id, "", 0))
         /\ UNCHANGED <<codec, srv>>
    \/ \E id \in Ids, key \in Keys :
         EraseKey(t, id, key) /\ gh' = Remember(t, Call("eraseKey", id, key, 0))
         /\ UNCHANGED <<codec, srv>>
    \/ \E id \in Ids, key \in Keys, val \in Vals :
         Update_contains(t, id, key, val) /\ gh' = Remember(t, Call("update", id, key, val))
         /\ UNCHANGED <<codec, srv>>
    \/ Update_add(t) /\ UNCHANGED <<gh, codec, srv>>
    \/ Update_assign(t) /\ UNCHANGED <<gh, codec, srv>>
    \/ \E d \in 1..Len(Docs) :
         FromJson(t, d) /\ gh' = Remember(t, Call("fromJson", "", "", d))
         /\ UNCHANGED <<codec, srv>>

SeqSpec == Init /\ [][SeqNext]_vars

\* every map of keys to values, and every store of such maps
AllEntries == UNION {[K -> Vals] : K \in SUBSET Keys}
AllStores == UNION {[I -> AllEntries] : I \in SUBSET Ids}

\* One thread with a Metadata m of any content, as in the tests of the
\* codec: it calls toJson(m), and calls fromJson on a second Metadata, new
\* at first, with the text toJson returned or with a text of its own.
CodecInit ==
  /\ metadata = EmptyMap
  /\ thr = [t \in Threads |-> NoCall]
  /\ gh = NoHistory
  /\ \E S \in AllStores : codec = [NoCodec EXCEPT !.m = S]
  /\ srv = NewServer

\* the history of the codec's caller: the store before its last fromJson,
\* and how the call before its last one ended
CodecNext ==
  \/ ToJson_begin /\ gh' = [gh EXCEPT !.perr = codec.err]
                  /\ UNCHANGED <<thr, srv>>
  \/ ToJson_item(codec.m) /\ UNCHANGED <<thr, gh, srv>>
  \/ ToJson_end(codec.m) /\ UNCHANGED <<thr, gh, srv>>
  \/ \E text \in Range(Texts) \cup Range(codec.json) :
       /\ FromJson_parse(text)
       /\ gh' = [gh EXCEPT !.pre = metadata, !.perr = codec.err]
       /\ UNCHANGED <<thr, srv>>
  \/ FromJson_lock /\ UNCHANGED <<thr, gh, srv>>
  \/ FromJson_load /\ UNCHANGED <<thr, gh, srv>>

CodecSpec == CodecInit /\ [][CodecNext]_vars

\* what the history keeps of a step of another thread while toJson walks
\* the map: the ids the store has had since toJson began, and whether the
\* store has changed
Observe ==
  IF codec.pc = "toJson"
  THEN [gh EXCEPT !.seen = @ \cup {DOMAIN metadata'},
                  !.raced = @ \/ metadata' # metadata]
  ELSE gh

\* a call of the other thread of EncSpec
Meanwhile(t) ==
  /\ t \in SeqThreads
  /\ codec.pc # "undefined"
  /\ gh' = Observe
  /\ UNCHANGED <<codec, srv>>

\* One thread calls toJson(m) on the Metadata on which another thread calls
\* add(id) and erase(id).
EncNext ==
  \/ /\ ToJson_begin
     /\ gh' = [gh EXCEPT !.seen = {DOMAIN metadata}, !.raced = FALSE]
     /\ UNCHANGED <<thr, srv>>
  \/ ToJson_item(metadata) /\ UNCHANGED <<thr, gh, srv>>
  \/ ToJson_end(metadata) /\ UNCHANGED <<thr, gh, srv>>
  \/ ToJson_undefined /\ UNCHANGED <<thr, gh, srv>>
  \/ \E t \in SeqThreads, id \in Ids : Add(t, id) /\ Meanwhile(t)
  \/ \E t \in SeqThreads, id \in Ids : Erase(t, id) /\ Meanwhile(t)

EncSpec == Init /\ [][EncNext]_vars

\* the two threads of ConcSpec, and the id and the key their calls name
ConcThreads == {1, 2}
ConcIds == {"Foo"}
ConcKeys == {"Bar"}

\* the store loses an id, or an id of the store loses a key, in this step
Lost ==
  \/ \E id \in Ids : contains(metadata, id) /\ ~contains(metadata', id)
  \/ \E id \in Ids, key \in Keys :
       idContains(metadata, id, key) /\ ~idContains(metadata', id, key)

\* what the history keeps of a step of ConcSpec: the member function it
\* belongs to and whether it made the store lose an id or a key
Step(op) ==
  /\ gh' = [gh EXCEPT !.call.op = op, !.pchg = Lost]
  /\ UNCHANGED <<codec, srv>>

\* two threads calling the member functions of one Metadata with the same
\* id and key, and fromJson with the documents (which have both ids and both
\* keys)
ConcNext ==
  \E t \in ConcThreads :
    \/ \E id \in ConcIds : Contains(t, id) /\ Step("contains")
    \/ \E id \in ConcIds, key \in ConcKeys :
         IdContains(t, id, key) /\ Step("idContains")
    \/ \E id \in ConcIds : Add(t, id) /\ Step("add")
    \/ \E id \in ConcIds, key \in ConcKeys, val \in Vals :
         AddKV_check(t, id, key, val) /\ Step("addKV")
    \/ AddKV_contains(t) /\ Step("addKV")
    \/ AddKV_add(t) /\ Step("addKV")
    \/ AddKV_insert(t) /\ Step("addKV")
    \/ IdsOp(t) /\ Step("ids")
    \/ \E id \in ConcIds : KeysOp(t, id) /\ Step("keys")
    \/ \E id \in ConcIds, key \in ConcKeys :
         Value_check(t, id, key) /\ Step("value")
    \/ Value_at(t) /\ Step("value")
    \/ \E id \in ConcIds : Erase(t, id) /\ Step("erase")
    \/ \E id \in ConcIds, key \in ConcKeys :
         EraseKey(t, id, key) /\ Step("eraseKey")
    \/ \E id \in ConcIds, key \in ConcKeys, val \in Vals :
         Update_contains(t, id, key, val) /\ Step("update")
    \/ Update_add(t) /\ Step("update")
    \/ Update_assign(t) /\ Step("update")
    \/ \E d \in 1..Len(Docs) : FromJson(t, d) /\ Step("fromJson")

ConcSpec == Init /\ [][ConcNext]_vars

\* one thread that owns a Server and calls start(), shutdown() and, in the
\* end, the destructor, and the thread start() creates; the history tells
\* whether the call before was of the same member function and how it ended
ServerNext ==
  \/ \E t \in SeqThreads, n \in 1..MaxServeThreads :
       /\ Start_check(t, n)
       /\ gh' = Remember(t, Call("start", "", "", 0))
       /\ UNCHANGED <<metadata, codec>>
  \/ \E t \in SeqThreads : Start_spawn(t) /\ UNCHANGED <<metadata, gh, codec>>
  \/ Thread_running /\ UNCHANGED <<metadata, gh, codec>>
  \/ Thread_flag /\ UNCHANGED <<metadata, gh, codec>>
  \/ Thread_init /\ UNCHANGED <<metadata, gh, codec>>
  \/ Thread_serve /\ UNCHANGED <<metadata, gh, codec>>
  \/ Thread_exit /\ UNCHANGED <<metadata, gh, codec>>
  \/ \E t \in SeqThreads :
       /\ Shutdown_check(t, "shutdown")
       /\ gh' = Remember(t, Call("shutdown", "", "", 0))
       /\ UNCHANGED <<metadata, codec>>
  \/ \E t \in SeqThreads :
       /\ Shutdown_check(t, "~Server")
       /\ gh' = Remember(t, Call("~Server", "", "", 0))
       /\ UNCHANGED <<metadata, codec>>
  \/ \E t \in SeqThreads : Shutdown_flag(t) /\ UNCHANGED <<metadata, gh, codec>>
  \/ \E t \in SeqThreads : Shutdown_stop(t) /\ UNCHANGED <<metadata, gh, codec>>
  \/ \E t \in SeqThreads : Shutdown_join(t) /\ UNCHANGED <<metadata, gh, codec>>
  \/ \E t \in SeqThreads : Shutdown_clear(t) /\ UNCHANGED <<metadata, gh, codec>>

ServerSpec == Init /\ [][ServerNext]_vars

\* the id and the key all threads of FirstSpec write
FirstId == "Foo"
FirstKey == "Bar"

\* a store without FirstKey under FirstId: empty, or with FirstId, whose
\* entry is empty or has the other key
FirstInit ==
  /\ metadata \in {EmptyMap,
                   [i \in {FirstId} |-> EmptyEntry],
                   [i \in {FirstId} |-> [k \in Keys \ {FirstKey} |-> 0]]}
  /\ thr = [t \in Threads |-> NoCall]
  /\ gh = NoHistory
  /\ codec = NoCodec
  /\ srv = NewServer

\* every thread calls add(FirstId, FirstKey, value) once, with a value of
\* its own choice, which the history keeps
FirstNext ==
  \E t \in Threads :
    \/ \E val \in Vals :
         /\ thr[t].op = "none"
         /\ AddKV_check(t, FirstId, FirstKey, val)
         /\ gh' = [gh EXCEPT !.seen = @ \cup {<<t, val>>}]
         /\ UNCHANGED <<codec, srv>>
    \/ AddKV_contains(t) /\ UNCHANGED <<gh, codec, srv>>
    \/ AddKV_add(t) /\ UNCHANGED <<gh, codec, srv>>
    \/ AddKV_insert(t) /\ UNCHANGED <<gh, codec, srv>>

FirstSpec == FirstInit /\ [][FirstNext]_vars

\* the stores the handlers start from: without and with the id of the
\* requests, which has no key, one key or both
HandlerStores ==
  {EmptyMap} \cup
  {[i \in ConcIds |-> e] :
     e \in {EmptyEntry, [k \in ConcKeys |-> 0], [k \in Keys |-> 1]}}

HandlerInit ==
  /\ metadata \in HandlerStores
  /\ thr = [t \in ConcThreads |-> NoRequest]
  /\ gh = [NoHistory EXCEPT !.pre = metadata]
  /\ codec = NoCodec
  /\ srv = NewServer

\* what the history keeps of a step of thread t in HandlerSpec: seen has
\* the threads whose addId was answered Ok since the store last lost an id
\* (pre is the store of that moment, or of Init)
Answered(t) ==
  /\ gh' = IF \E id \in Ids : contains(metadata, id) /\ ~contains(metadata', id)
           THEN [gh EXCEPT !.pre = metadata', !.seen = {}]
           ELSE IF /\ thr[t].pc = "addId.add"
                   /\ thr'[t].resp # <<>>
                   /\ thr'[t].resp[Len(thr'[t].resp)].code = "Ok"
                THEN [gh EXCEPT !.seen = @ \cup {t}]
                ELSE gh
  /\ UNCHANGED <<codec, srv>>

\* two threads of the endpoint running addId and getId for one id, and
\* calling erase(id) and erase(id, key) on the Metadata the Server shares
HandlerNext ==
  \E t \in ConcThreads :
    \/ \E id \in ConcIds : AddId_contains(t, id) /\ Answered(t)
    \/ AddId_add(t) /\ Answered(t)
    \/ \E id \in ConcIds : GetId_contains(t, id) /\ Answered(t)
    \/ GetId_keys(t) /\ Answered(t)
    \/ GetId_value(t) /\ Answered(t)
    \/ GetId_at(t) /\ Answered(t)
    \/ \E id \in ConcIds : Erase(t, id) /\ Answered(t)
    \/ \E id \in ConcIds, key \in Keys : EraseKey(t, id, key) /\ Answered(t)

HandlerSpec == HandlerInit /\ [][HandlerNext]_vars

\* the texts of LockSpec: a document, a text that is not JSON and a
\* document archive(m) throws on
LockTexts == {Texts[2], Texts[Len(Docs) + 1], Texts[Len(Docs) + 2]}

\* A critical section of a thread is one step, from the lock_guard to the
\* end of its scope, and can be taken when the mutex is free; fromJson holds
\* the mutex from FromJson_lock to FromJson_load.
MutexFree == ~codec.mtx

Section == MutexFree /\ UNCHANGED <<gh, codec, srv>>

\* the critical sections after the first of the call thread t is in
Continue(t) ==
  /\ \/ AddKV_contains(t) \/ AddKV_add(t) \/ AddKV_insert(t)
     \/ Value_at(t)
     \/ Update_add(t) \/ Update_assign(t)
  /\ Section

\* two threads calling the member functions of one Metadata while a third
\* caller hands texts to fromJson
LockNext ==
  \/ \E t \in ConcThreads, id \in ConcIds : Contains(t, id) /\ Section
  \/ \E t \in ConcThreads, id \in ConcIds, key \in ConcKeys :
       IdContains(t, id, key) /\ Section
  \/ \E t \in ConcThreads, id \in ConcIds : Add(t, id) /\ Section
  \/ \E t \in ConcThreads, id \in ConcIds, key \in ConcKeys, val \in Vals :
       AddKV_check(t, id, key, val) /\ Section
  \/ \E t \in ConcThreads : AddKV_contains(t) /\ Section
  \/ \E t \in ConcThreads : AddKV_add(t) /\ Section
  \/ \E t \in ConcThreads : AddKV_insert(t) /\ Section
  \/ \E t \in ConcThreads : IdsOp(t) /\ Section
  \/ \E t \in ConcThreads, id \in ConcIds : KeysOp(t, id) /\ Section
  \/ \E t \in ConcThreads, id \in ConcIds, key \in ConcKeys :
       Value_check(t, id, key) /\ Section
  \/ \E t \in ConcThreads : Value_at(t) /\ Section
  \/ \E t \in ConcThreads, id \in ConcIds : Erase(t, id) /\ Section
  \/ \E t \in ConcThreads, id \in ConcIds, key \in ConcKeys :
       EraseKey(t, id, key) /\ Section
  \/ \E t \in ConcThreads, id \in ConcIds, key \in ConcKeys, val \in Vals :
       Update_contains(t, id, key, val) /\ Section
  \/ \E t \in ConcThreads : Update_add(t) /\ Section
  \/ \E t \in ConcThreads : Update_assign(t) /\ Section
  \/ \E text \in LockTexts : FromJson_parse(text) /\ UNCHANGED <<thr, gh, srv>>
  \/ FromJson_lock /\ UNCHANGED <<thr, gh, srv>>
  \/ FromJson_load /\ UNCHANGED <<thr, gh, srv>>

\* A fair scheduler: a thread that is in a call and finds the mutex free
\* again and again gets it in the end (strong fairness, the mutex being
\* taken and released by the others meanwhile); fromJson goes on once it
\* can.  Whether a thread makes another call is up to it.
LockFair ==
  /\ \A t \in ConcThreads : SF_vars(Continue(t))
  /\ SF_vars(FromJson_lock /\ UNCHANGED <<thr, gh, srv>>)
  /\ WF_vars(FromJson_load /\ UNCHANGED <<thr, gh, srv>>)

LockSpec == Init /\ [][LockNext]_vars /\ LockFair

\* =================================================================== claims
\* the arguments of the call SeqSpec's caller is in, or made last
gid == gh.call.id
gkey == gh.call.key
gval == gh.call.val

\* every entry but id's is as it was before the call
OthersKept(id) ==
  \A i \in Ids \ {id} :
    /\ contains(metadata, i) <=> contains(gh.pre, i)
    /\ contains(gh.pre, i) => metadata[i] = gh.pre[i]

\* every key of id but key is as it was before the call
OtherKeysKept(id, key) ==
  \A k \in Keys \ {key} :
    IF idContains(gh.pre, id, k)
    THEN idContains(metadata, id, k) /\ metadata[id][k] = gh.pre[id][k]
    ELSE ~idContains(metadata, id, k)

\* ---------------------------------------------------------------------- C1
\* thread t is in add(id, key, value) or update(id, key, value), has created
\* id itself (contains(id) returned false and its add(id) is done) and has
\* not written key yet: id is in the store without key
HalfCreated(t) ==
  /\ thr[t].pc \in {"addKV.insert", "update.assign"}
  /\ thr[t].rb = FALSE
  /\ contains(metadata, thr[t].id)
  /\ ~idContains(metadata, thr[t].id, thr[t].key)

\* thread u makes a call that reads or changes the entry of id
ActsOn(u, id) ==
  \/ Contains(u, id)
  \/ KeysOp(u, id)
  \/ Erase(u, id)
  \/ IdsOp(u)
  \/ \E key \in Keys : IdContains(u, id, key) \/ EraseKey(u, id, key)

\* C1: every Store operation is atomic with respect to every other: while an
\* update or a three-argument add on an absent id is between its creation of
\* id and its write of key, no other thread's call observes or acts on id.
C1_AtomicImplicitCreate ==
  [][\A t \in Threads :
       HalfCreated(t) => \A u \in Threads \ {t} : ~ActsOn(u, thr[t].id)]_vars

\* ---------------------------------------------------------------------- C2
\* C2: update(id, key, value) never fails: whatever the other threads do,
\* every update call returns without throwing.
C2_UpdateNeverThrows ==
  \A t \in Threads : Finished(t, "update") => thr[t].err = "none"

\* ---------------------------------------------------------------------- C3
\* C3: the implicit creation of id by add(id, key, value) never produces an
\* error: among threads that call only add(id) and add(id, key, value), no
\* add(id, key, value) ends with the error of add(id).
C3_ImplicitCreateNeverThrows ==
  \A t \in Threads :
    (/\ Finished(t, "addKV")
     /\ \A u \in Threads \ {t} : thr[u].op \in {"none", "add", "addKV"})
    => thr[t].err # "AlreadyInMetadata"

\* ---------------------------------------------------------------------- C4
\* C4: when key is in id's entry, add(id, key, v2) throws the already-exists
\* error and leaves the whole store as it was; the stored value is still
\* there.
C4_StrictAddRejectsPresentKey ==
  \A t \in SeqThreads :
    (Finished(t, "addKV") /\ idContains(gh.pre, gid, gkey)) =>
      /\ ErrKind(thr[t].err) = "AlreadyExists"
      /\ metadata = gh.pre
      /\ idContains(metadata, gid, gkey)
      /\ metadata[gid][gkey] = gh.pre[gid][gkey]

\* add(id, key, v2) has thrown on a key stored with another value, in a
\* store with a second id
C4_Witness ==
  /\ Finished(1, "addKV")
  /\ idContains(gh.pre, gid, gkey)
  /\ gh.pre[gid][gkey] # gval
  /\ thr[1].err = "KeyAlreadyInId"
  /\ Cardinality(DOMAIN metadata) = 2

\* ---------------------------------------------------------------------- C5
\* C5: when id is in the store, add(id) throws the already-exists error and
\* leaves the store as it was: id is there with the keys and values it had.
C5_AddRejectsPresentId ==
  \A t \in SeqThreads :
    (Finished(t, "add") /\ contains(gh.pre, gid)) =>
      /\ ErrKind(thr[t].err) = "AlreadyExists"
      /\ metadata = gh.pre
      /\ contains(metadata, gid)

\* add(id) has thrown on an id whose entry has keys
C5_Witness ==
  /\ Finished(1, "add")
  /\ contains(gh.pre, gid)
  /\ gh.pre[gid] # EmptyEntry
  /\ thr[1].err = "AlreadyInMetadata"

\* ---------------------------------------------------------------------- C6
\* C6: update(id, key, v1) then update(id, key, v2) throws at neither call
\* and leaves value(id, key) = v2; an update changes nothing but (id, key):
\* every other id and every other key of id is as it was.
C6_UpdateOverwrites ==
  \A t \in SeqThreads :
    Finished(t, "update") =>
      /\ thr[t].err = "none"
      /\ gh.rep => gh.perr = "none"
      /\ idContains(metadata, gid, gkey)
      /\ metadata[gid][gkey] = gval
      /\ OthersKept(gid)
      /\ OtherKeysKept(gid, gkey)

\* the second of two updates of the same id and key has returned, the first
\* one's value was another one, and id has a second key
C6_Witness ==
  /\ Finished(1, "update")
  /\ gh.rep
  /\ idContains(gh.pre, gid, gkey)
  /\ gh.pre[gid][gkey] # gval
  /\ metadata[gid][gkey] = gval
  /\ Cardinality(DOMAIN metadata[gid]) = 2

\* ---------------------------------------------------------------------- C7
\* C7: when id is not in the store, an add(id, key, value) or an
\* update(id, key, value) that returns leaves contains(id) and
\* idContains(id, key) true, value(id, key) = value, keys(id) = [key], ids()
\* the ids of before and id, and every other entry as it was.
C7_ImplicitCreatePostcondition ==
  \A t \in SeqThreads :
    (/\ Finished(t, "addKV") \/ Finished(t, "update")
     /\ ~contains(gh.pre, gid)
     /\ thr[t].err = "none") =>
      /\ contains(metadata, gid)
      /\ idContains(metadata, gid, gkey)
      /\ metadata[gid][gkey] = gval
      /\ keys(metadata, gid) = <<gkey>>
      /\ Range(ids(metadata)) = Range(ids(gh.pre)) \cup {gid}
      /\ Len(ids(metadata)) = Len(ids(gh.pre)) + 1
      /\ OthersKept(gid)

\* add(id, key, value) has returned for an id that was not there, with a
\* value that is not the empty string, in a store that had another id
C7_Witness ==
  /\ Finished(1, "addKV")
  /\ ~contains(gh.pre, gid)
  /\ gh.pre # EmptyMap
  /\ thr[1].err = "none"
  /\ gval # 0
  /\ metadata[gid][gkey] = gval

\* ---------------------------------------------------------------------- C8
\* C8: for an id that is not in the store, contains(id) and
\* idContains(id, key) return false without throwing, keys(id) and
\* value(id, key) throw the not-found error, and none of the four changes
\* the store.
C8_AbsentIdLookups ==
  \A t \in SeqThreads :
    (thr[t].pc = "done" /\ ~contains(gh.pre, gid)) =>
      /\ Finished(t, "contains") => thr[t].err = "none" /\ thr[t].rb = FALSE
      /\ Finished(t, "idContains") => thr[t].err = "none" /\ thr[t].rb = FALSE
      /\ Finished(t, "keys") => ErrKind(thr[t].err) = "NotFound"
      /\ Finished(t, "value") => ErrKind(thr[t].err) = "NotFound"
      /\ thr[t].op \in {"contains", "idContains", "keys", "value"}
           => metadata = gh.pre /\ ~contains(metadata, gid)

\* keys(id) has thrown for an id that is not there, in a store that is not
\* empty
C8_Witness ==
  /\ Finished(1, "keys")
  /\ ~contains(gh.pre, gid)
  /\ gh.pre # EmptyMap
  /\ thr[1].err = "UniqueIdDoesNotExist"

\* ---------------------------------------------------------------------- C9
\* C9: every failure of value(id, key) is a not-found error of the same kind
\* as the other errors of the class, also when the id or the key is erased
\* between the check of value and its read.
C9_ValueFailsWithNotFound ==
  \A t \in Threads :
    (Finished(t, "value") /\ thr[t].err # "none") =>
      /\ ErrType(thr[t].err) = "std::runtime_error"
      /\ ErrKind(thr[t].err) = "NotFound"

\* --------------------------------------------------------------------- C10
\* C10: erase(id) and erase(id, key) never throw, and a second call in a row
\* leaves the store as the first call left it.
C10_EraseIdempotent ==
  \A t \in SeqThreads :
    (Finished(t, "erase") \/ Finished(t, "eraseKey")) =>
      /\ thr[t].err = "none"
      /\ gh.rep => (gh.perr = "none" /\ metadata = gh.pre)

\* the second of two erase(id, key) in a row has returned, and the first one
\* had removed the key
C10_Witness ==
  /\ Finished(1, "eraseKey")
  /\ gh.rep
  /\ gh.pchg
  /\ contains(metadata, gid)
  /\ thr[1].err = "none"

\* --------------------------------------------------------------------- C11
\* C11: erase(id, key) removes that key and nothing else: afterwards
\* idContains(id, key) is false, every other key of id has its value, every
\* other id is as it was, and id is still in the store, also when its entry
\* has become empty; when id or key was not there, the store is as it was and
\* id has not been created.
C11_EraseKeyFrame ==
  \A t \in SeqThreads :
    Finished(t, "eraseKey") =>
      /\ ~idContains(metadata, gid, gkey)
      /\ OtherKeysKept(gid, gkey)
      /\ OthersKept(gid)
      /\ contains(metadata, gid) <=> contains(gh.pre, gid)
      /\ ~idContains(gh.pre, gid, gkey) => metadata = gh.pre

\* erase(id, key) has removed the only key of id, in a store with a second
\* id: id is there with an empty entry
C11_Witness ==
  /\ Finished(1, "eraseKey")
  /\ idContains(gh.pre, gid, gkey)
  /\ contains(metadata, gid)
  /\ metadata[gid] = EmptyEntry
  /\ Cardinality(DOMAIN metadata) = 2

\* --------------------------------------------------------------------- C12
\* C12: an id that is there with an empty entry is told from an id that is
\* not there (contains is true and keys returns the empty list without
\* throwing, where keys throws the not-found error for the absent id), and a
\* key stored with the empty string is told from a key that is not there
\* (idContains is true and value returns the empty string without throwing,
\* where value throws the not-found error for the absent key).
C12_AbsentIsNotEmpty ==
  \A t \in SeqThreads :
    /\ (contains(gh.pre, gid) /\ gh.pre[gid] = EmptyEntry) =>
         /\ Finished(t, "contains") => thr[t].err = "none" /\ thr[t].rb = TRUE
         /\ Finished(t, "keys") => thr[t].err = "none" /\ thr[t].rl = <<>>
    /\ (Finished(t, "keys") /\ ~contains(gh.pre, gid)) =>
         ErrKind(thr[t].err) = "NotFound"
    /\ (idContains(gh.pre, gid, gkey) /\ gh.pre[gid][gkey] = 0) =>
         /\ Finished(t, "idContains") => thr[t].err = "none" /\ thr[t].rb = TRUE
         /\ Finished(t, "value") => thr[t].err = "none" /\ thr[t].rv = 0
    /\ (Finished(t, "value") /\ ~idContains(gh.pre, gid, gkey)) =>
         ErrKind(thr[t].err) = "NotFound"

\* value(id, key) has returned the empty string stored under key, in a store
\* whose other id has an empty entry
C12_Witness ==
  /\ Finished(1, "value")
  /\ idContains(gh.pre, gid, gkey)
  /\ gh.pre[gid][gkey] = 0
  /\ thr[1].err = "none"
  /\ \E i \in Ids \ {gid} : contains(gh.pre, i) /\ gh.pre[i] = EmptyEntry

\* ------------------------------------------------------------ C13, C18
\* the last call of the codec's caller was fromJson, it is over, and its
\* text was the one toJson(m) had returned
DecodedOwnText ==
  /\ codec.pc = "idle"
  /\ codec.op = "fromJson"
  /\ codec.json # <<>>
  /\ codec.data = codec.json

\* C13: fromJson of the text of toJson(m) into a new Metadata does not throw
\* and gives a store with the ids of m and, under each id, the keys and the
\* values of m, the ids with an empty entry included.
C13_RoundTrip ==
  (DecodedOwnText /\ gh.pre = EmptyMap) =>
    /\ codec.err = "none"
    /\ ids(metadata) = ids(codec.m)
    /\ \A id \in DOMAIN codec.m :
         /\ keys(metadata, id) = keys(codec.m, id)
         /\ \A k \in DOMAIN codec.m[id] : metadata[id][k] = codec.m[id][k]

\* the text of a store of two ids has been decoded into a new Metadata: one
\* id has an empty entry, the other one a key with the empty string and a
\* key with another value
C13_Witness ==
  /\ DecodedOwnText
  /\ gh.pre = EmptyMap
  /\ \E i, j \in DOMAIN codec.m :
       /\ codec.m[i] = EmptyEntry
       /\ Cardinality(DOMAIN codec.m[j]) = 2
       /\ \E k \in DOMAIN codec.m[j] : codec.m[j][k] = 0
       /\ \E k \in DOMAIN codec.m[j] : codec.m[j][k] # 0
  /\ metadata = codec.m

\* --------------------------------------------------------------------- C16
\* C16: every id in the store maps to an entry that is not null, whatever
\* calls of the class and of fromJson have been made.
C16_EntriesNeverNull ==
  \A id \in DOMAIN metadata : metadata[id] # Null

\* --------------------------------------------------------------------- C18
\* C18: fromJson replaces what its Metadata holds: after fromJson of the text
\* of toJson(m) into a Metadata that held anything, that Metadata holds the
\* ids, keys and values of m and nothing of what it held before.
C18_DecodeReplaces ==
  DecodedOwnText =>
    /\ codec.err = "none"
    /\ metadata = codec.m
    /\ \A id \in DOMAIN gh.pre \ DOMAIN codec.m : ~contains(metadata, id)

\* the text of m has been decoded into a Metadata that held an id m has not,
\* and, under an id of m, a key m has not and a key with another value
C18_Witness ==
  /\ DecodedOwnText
  /\ DOMAIN gh.pre \ DOMAIN codec.m # {}
  /\ \E id \in DOMAIN gh.pre \cap DOMAIN codec.m :
       /\ gh.pre[id] # Null
       /\ DOMAIN gh.pre[id] \ DOMAIN codec.m[id] # {}
       /\ \E k \in DOMAIN gh.pre[id] \cap DOMAIN codec.m[id] :
            gh.pre[id][k] # codec.m[id][k]
  /\ metadata = codec.m

\* --------------------------------------------------------------------- C19
\* the text of the last fromJson is one cereal cannot read as the map
Malformed(text) == ~text.parses \/ LoadThrows(text.items)

TextIds(text) == {text.items[i][1] : i \in 1..Len(text.items)}

\* C14: toJson returns the content the store had at one instant of the call,
\* whatever other threads do meanwhile: in particular the ids of the text are
\* the ids the store had at one instant between the begin and the end of the
\* call.
C14_EncodeIsSnapshot ==
  (codec.pc = "idle" /\ codec.op = "toJson") =>
    TextIds(codec.json[1]) \in gh.seen

\* --------------------------------------------------------------------- C15
\* a list without duplicates of the elements of set
ListOf(q, set) == Range(q) = set /\ Len(q) = Cardinality(set)

\* C15: ids() and keys(id) return a copy of what the store holds at one
\* instant of the call: the list of an ids() step is the ids of the store at
\* that step, the list of a keys(id) step is the keys of id at that step,
\* each once, and the list a thread holds is not changed by the steps of the
\* other threads.
C15_ListsAreSnapshots ==
  [][\A t \in ConcThreads :
       /\ IdsOp(t) => ListOf(thr'[t].rl, DOMAIN metadata)
       /\ \A id \in Ids :
            (KeysOp(t, id) /\ contains(metadata, id)) =>
              ListOf(thr'[t].rl, DOMAIN metadata[id])
       /\ (/\ thr[t].pc = "done"
           /\ thr[t].op \in {"ids", "keys"}
           /\ \E u \in ConcThreads \ {t} : thr'[u] # thr[u]) =>
             thr'[t].rl = thr[t].rl]_vars

\* a thread holds the two ids ids() returned while the other thread's erase
\* has removed one of them from the store
C15_Witness ==
  \E t \in ConcThreads : \E u \in ConcThreads \ {t} :
    /\ Finished(t, "ids")
    /\ Len(thr[t].rl) = 2
    /\ Finished(u, "erase")
    /\ gh.call.op = "erase"
    /\ gh.pchg
    /\ Cardinality(DOMAIN metadata) = 1

\* --------------------------------------------------------------------- C17
\* C17: an id leaves the store only in a step of erase(id), and a key leaves
\* the entry of an id only in a step of erase(id, key) or of erase(id); no
\* step of another member function or of fromJson removes an id or a key.
C17_OnlyEraseRemoves ==
  [][/\ \A id \in Ids :
          (contains(metadata, id) /\ ~contains(metadata', id)) =>
            \E t \in ConcThreads : Erase(t, id)
     /\ \A id \in Ids, key \in Keys :
          (idContains(metadata, id, key) /\ ~idContains(metadata', id, key)) =>
            \E t \in ConcThreads : Erase(t, id) \/ EraseKey(t, id, key)]_vars

\* C17, amended: an id leaves the store only in a step of erase(id) or of
\* fromJson, and a key leaves the entry of an id only in a step of
\* erase(id, key), of erase(id) or of fromJson, which puts the content of its
\* document in the place of the content of the store; no step of add,
\* update, contains, idContains, ids, keys or value removes an id or a key.
C17_OnlyEraseOrFromJsonRemoves ==
  [][/\ \A id \in Ids :
          (contains(metadata, id) /\ ~contains(metadata', id)) =>
            \E t \in ConcThreads :
              Erase(t, id) \/ \E d \in 1..Len(Docs) : FromJson(t, d)
     /\ \A id \in Ids, key \in Keys :
          (idContains(metadata, id, key) /\ ~idContains(metadata', id, key)) =>
            \E t \in ConcThreads :
              \/ Erase(t, id)
              \/ EraseKey(t, id, key)
              \/ \E d \in 1..Len(Docs) : FromJson(t, d)]_vars

\* a step of fromJson has removed an id from the store while the other
\* thread is between the two locks of its update
C17_Witness ==
  /\ gh.call.op = "fromJson"
  /\ gh.pchg
  /\ \E t \in ConcThreads : thr[t].pc = "update.assign"
  /\ \E id \in Ids : ~contains(metadata, id)

\* --------------------------------------------------------------------- C20
\* C20: a shutdown() called after start() has returned stops the server:
\* when shutdown() has returned, running is false, serverThread has been
\* joined and no serving thread is left, also when shutdown() is called
\* right after start(), before the new thread has set running.
C20_ShutdownStops ==
  \A t \in SeqThreads :
    (Finished(t, "shutdown") /\ srv.life = "alive") =>
      /\ ~srv.running
      /\ ~srv.joinable
      /\ srv.tpc = "none"

\* --------------------------------------------------------------------- C21
\* C21: a start() called after a start() that returned, with no shutdown()
\* in between, throws "Server is already running." and creates no second
\* thread, wherever the thread of the first start() is in its startup.
C21_SecondStartThrows ==
  \A t \in SeqThreads :
    (Finished(t, "start") /\ gh.rep /\ gh.perr = "none") =>
      /\ thr[t].err = "ServerAlreadyRunning"
      /\ srv.life = "alive"

\* --------------------------------------------------------------------- C23
\* C23: add(id, key, value) throws "Unique ID '<id>' does not exist" only
\* when id is not in the store at its insert; when the insert fails because
\* key is there, the error is the already-exists error of the key.
C23_InsertErrorNamesItsCause ==
  [][\A t \in ConcThreads :
       AddKV_insert(t) =>
         /\ thr'[t].err = "UniqueIdDoesNotExist" =>
              ~contains(metadata, thr[t].id)
         /\ idContains(metadata, thr[t].id, thr[t].key) =>
              thr'[t].err = "KeyAlreadyInId"]_vars

\* --------------------------------------------------------------------- C24
\* the threads of FirstSpec whose add(id, key, value) has returned
Winners == {t \in Threads : Finished(t, "addKV") /\ thr[t].err = "none"}

\* C24: of the concurrent add(id, key, v) calls on one id and one key that
\* is not there, at most one returns at any time and, once all are over,
\* exactly one has returned and the others have thrown; the value of
\* (id, key) is the value of the call that returned.
C24_FirstWriteWins ==
  /\ Cardinality(Winners) <= 1
  /\ \A t \in Winners :
       /\ idContains(metadata, FirstId, FirstKey)
       /\ <<t, metadata[FirstId][FirstKey]>> \in gh.seen
  /\ (\A t \in Threads : Finished(t, "addKV")) => Cardinality(Winners) = 1

\* all calls are over, two of them had different values, and one of the
\* losers had passed the first check of add(id, key, value)
C24_Witness ==
  /\ \A t \in Threads : Finished(t, "addKV")
  /\ \E p, q \in gh.seen : p[2] # q[2]
  /\ Cardinality(Winners) = 1
  /\ \E t \in Threads : thr[t].err = "UniqueIdDoesNotExist"

\* --------------------------------------------------------------------- C22
\* the response of a handler that is over
Response(c) == c.resp[Len(c.resp)]

\* C22: a step that ends addId leaves exactly one response and no
\* exception: Ok when the step has created the id, which was not there,
\* and Bad_Request when the id was there, the store staying as it was;
\* since the store last lost an id at most one request was answered Ok, and
\* exactly one when the id has been created since.
C22_AddIdAnswersOnce ==
  [][\A t \in ConcThreads :
       /\ (((\E id \in ConcIds : AddId_contains(t, id)) \/ AddId_add(t))
            /\ thr'[t].pc = "done") =>
             /\ Len(thr'[t].resp) = 1
             /\ thr'[t].err = "none"
             /\ Response(thr'[t]).code \in {"Ok", "Bad_Request"}
             /\ Response(thr'[t]).code = "Ok" <=>
                  ~contains(metadata, thr'[t].id)
             /\ Response(thr'[t]).code = "Ok" =>
                  metadata' = MapInsert(metadata, thr'[t].id, EmptyEntry)
             /\ Response(thr'[t]).code = "Bad_Request" =>
                  metadata' = metadata
       /\ Cardinality(gh'.seen) <= 1
       /\ \A id \in ConcIds :
            ~contains(gh'.pre, id) =>
              (contains(metadata', id) <=> Cardinality(gh'.seen) = 1)]_vars

\* both threads have had addId find the id missing; one was answered Ok and
\* the other the Bad_Request of the catch
C22_Witness ==
  \E t \in ConcThreads : \E u \in ConcThreads \ {t} :
    /\ Finished(t, "addId") /\ Finished(u, "addId")
    /\ Response(thr[t]).code = "Ok"
    /\ Response(thr[u]).code = "Bad_Request"
    /\ Response(thr[u]).body = "AlreadyInMetadata"
    /\ gh.seen = {t}

\* --------------------------------------------------------------------- C26
\* C26: getId ends with a response that is complete, Not_Found or Ok, and
\* no exception of keys(id) or value(id, key) leaves it.
C26_GetIdAlwaysAnswers ==
  \A t \in ConcThreads :
    Finished(t, "getId") =>
      /\ thr[t].err = "none"
      /\ Len(thr[t].resp) = 1
      /\ Response(thr[t]).ended
      /\ Response(thr[t]).code \in {"Ok", "Not_Found"}

====
